---- MODULE Spec2Model ----
(***************************************************************************)
(* Model of MultiPairScalpingTrader (src/bot.py): the position registry    *)
(* (active_trades), the order sequence of execute_scalping_trade, the      *)
(* reconciliation pass check_scalping_trades and the cycle that drives     *)
(* them, run_scalping_cycle, against an exchange whose answers are         *)
(* nondeterministic.                                                       *)
(*                                                                         *)
(* Prices are integers in units of 10^-4, quantities in units of 10^-3.    *)
(* Python's round() acts on binary floats, so a value that lies exactly    *)
(* half way between two representable results may go either way: the      *)
(* rounding operators return the SET of results the build can produce.     *)
(***************************************************************************)
EXTENDS Integers, Sequences, FiniteSets, TLC

(***************************************************************************)
(* Program constants (__init__, src/bot.py:21-31)                          *)
(***************************************************************************)
trade_size_usd == 150
max_concurrent_trades == 3
\* scalp_stop_loss = 0.005 and scalp_take_profit = 0.008, in thousandths
scalp_stop_loss_milli == 5
scalp_take_profit_milli == 8
blacklisted_pairs == {"BTCUSDT"}
\* format_price: self.price_precision.get(pair, 4)
DefaultPricePrecision == 4
\* get_quantity: self.quantity_precision.get(pair, 2)
DefaultQuantityPrecision == 2
\* the confidence a decision needs to become a trade opportunity
MinConfidence == 65
\* a medium-urgency opportunity is executed from this confidence on
MediumUrgencyConfidence == 70

(***************************************************************************)
(* Units                                                                   *)
(***************************************************************************)
RECURSIVE Pow10(_)
Pow10(n) == IF n = 0 THEN 1 ELSE 10 * Pow10(n - 1)

\* one price unit is 10^-4, one quantity unit is 10^-3
PriceScale == Pow10(4)
QtyScale == Pow10(3)

Abs(x) == IF x < 0 THEN -x ELSE x
Min(a, b) == IF a < b THEN a ELSE b
Sign(x) == IF x < 0 THEN -1 ELSE IF x > 0 THEN 1 ELSE 0

(***************************************************************************)
(* round(x, ndigits) of Python on the rational n/d >= 0, as the set of     *)
(* integers k such that k is a result the float arithmetic can give for    *)
(* the nearest integer to n/d: the nearest one, or either neighbour when   *)
(* n/d is exactly half way.                                                *)
(***************************************************************************)
RoundOutcomes(n, d) ==
    LET q == n \div d
        r == n % d
    IN  IF 2 * r < d THEN {q}
        ELSE IF 2 * r > d THEN {q + 1}
        ELSE {q, q + 1}

RECURSIVE Gcd(_, _)
Gcd(a, b) == IF b = 0 THEN a ELSE Gcd(b, a % b)

\* round(n/d, precision), the results in units of 1/scale; the factor
\* 10^precision is cancelled against d to keep the products small
RoundTo(n, d, precision, scale) ==
    LET unit == scale \div Pow10(precision)
        g == Gcd(Pow10(precision), d)
    IN  {k * unit :
            k \in RoundOutcomes(n * (Pow10(precision) \div g), d \div g)}

(***************************************************************************)
(* load_symbol_precision: the precision computed from a stepSize/tickSize  *)
(* string, given as its sequence of characters.                            *)
(***************************************************************************)
Contains(s, c) == \E i \in 1..Len(s) : s[i] = c

\* s.split('.')[1]: the characters after the first '.'
AfterDot(s) ==
    LET i == CHOOSE j \in 1..Len(s) :
                 s[j] = "." /\ \A k \in 1..(j - 1) : s[k] # "."
    IN  SubSeq(s, i + 1, Len(s))

RECURSIVE RStripZeros(_)
RStripZeros(s) ==
    IF s # <<>> /\ s[Len(s)] = "0" THEN RStripZeros(SubSeq(s, 1, Len(s) - 1))
    ELSE s

PrecisionOf(size) ==
    IF Contains(size, "1") THEN 0
    ELSE Len(RStripZeros(AfterDot(size)))

(***************************************************************************)
(* get_minimum_quantity, in quantity units                                 *)
(***************************************************************************)
get_minimum_quantity(pair) ==
    CASE pair \in {"ADAUSDT", "XRPUSDT", "DOGEUSDT", "TRXUSDT", "MATICUSDT"}
             -> 1 * QtyScale
      [] pair = "ETHUSDT" -> QtyScale \div 1000
      [] pair \in {"BNBUSDT", "SOLUSDT", "LTCUSDT"} -> QtyScale \div 100
      [] pair \in {"AVAXUSDT", "DOTUSDT", "LINKUSDT", "ATOMUSDT"}
             -> QtyScale \div 10
      [] OTHER -> QtyScale \div 100

\* self.quantity_precision.get(pair, 2) and self.price_precision.get(pair, 4)
PrecisionGet(table, pair, default) ==
    IF pair \in DOMAIN table THEN table[pair] ELSE default

(***************************************************************************)
(* get_quantity(pair, price): the set of quantities (units) it can return. *)
(* price is in price units; price = 0 raises ZeroDivisionError, which the  *)
(* handler answers with the minimum quantity.                              *)
(***************************************************************************)
get_quantity(qprec, pair, price) ==
    IF price <= 0 THEN {get_minimum_quantity(pair)}
    ELSE
      LET precision == PrecisionGet(qprec, pair, DefaultQuantityPrecision)
          \* round(trade_size_usd / price, precision)
          rounded == RoundTo(trade_size_usd * PriceScale, price,
                             precision, QtyScale)
          min_qty == get_minimum_quantity(pair)
          \* the adjustment below 80% of the target recomputes the same
          \* rounding of the same value
          \* the least quantity whose value reaches 80% of trade_size_usd
          enough == (trade_size_usd * 8 * (QtyScale \div 10) * PriceScale - 1)
                        \div price + 1
          Adjusted(q) == IF q < enough THEN rounded ELSE {q}
      IN  {IF q2 < min_qty THEN min_qty ELSE q2 :
               q2 \in UNION {Adjusted(q) : q \in rounded}}

(***************************************************************************)
(* format_price(pair, price) for the price n/d: round to the pair's price  *)
(* precision, the results in price units.                                  *)
(***************************************************************************)
format_price(pprec, pair, n, d) ==
    RoundTo(n, d, PrecisionGet(pprec, pair, DefaultPricePrecision), PriceScale)

(***************************************************************************)
(* The exchange: the symbols it lists, with the stepSize (LOT_SIZE) and     *)
(* tickSize (PRICE_FILTER) strings of futures_exchange_info and the price   *)
(* futures_symbol_ticker reports, in price units.                           *)
(***************************************************************************)
Pairs == {"BNBUSDT", "SOLUSDT", "AVAXUSDT", "ADAUSDT"}

\* every symbol the exchange keeps a position and an order book for
Symbols == Pairs \cup blacklisted_pairs

\* (the price of BTCUSDT is the largest one the price units leave room for)
Price(pair) ==
    CASE pair = "BNBUSDT" -> 600 * PriceScale
      [] pair = "BTCUSDT" -> 999 * PriceScale
      [] pair = "SOLUSDT" -> 150 * PriceScale
      [] pair = "AVAXUSDT" -> 31 * PriceScale
      [] OTHER -> PriceScale \div 2

\* the filters as the exchange publishes them: every size holds a '1'
ListingOnes(symbols) ==
    [p \in symbols |->
        CASE p = "BNBUSDT" -> [stepSize |-> <<"0", ".", "0", "1">>,
                               tickSize |-> <<"0", ".", "0", "1", "0">>]
          [] p = "SOLUSDT" -> [stepSize |-> <<"1">>,
                               tickSize |-> <<"0", ".", "0", "1", "0">>]
          [] p = "AVAXUSDT" -> [stepSize |-> <<"1">>,
                                tickSize |-> <<"0", ".", "0", "0", "1">>]
          [] OTHER -> [stepSize |-> <<"1">>,
                       tickSize |-> <<"0", ".", "0", "0", "0", "1", "0">>]]

\* filters whose sizes hold no '1'
ListingFives(symbols) ==
    [p \in symbols |->
        CASE p = "BNBUSDT" -> [stepSize |-> <<"0", ".", "0", "5">>,
                               tickSize |-> <<"0", ".", "0", "5">>]
          [] p = "SOLUSDT" -> [stepSize |-> <<"0", ".", "5", "0">>,
                               tickSize |-> <<"0", ".", "0", "5", "0">>]
          [] p = "AVAXUSDT" -> [stepSize |-> <<"0", ".", "5">>,
                                tickSize |-> <<"0", ".", "5">>]
          [] OTHER -> [stepSize |-> <<"5", ".", "0">>,
                       tickSize |-> <<"0", ".", "0", "0", "0", "5">>]]

\* load_symbol_precision over one listing: the two precision tables
load_symbol_precision(listing) ==
    [quantity_precision |->
         [p \in DOMAIN listing |-> PrecisionOf(listing[p].stepSize)],
     price_precision |->
         [p \in DOMAIN listing |-> PrecisionOf(listing[p].tickSize)]]

\* futures_exchange_info raised: both tables stay empty
NoPrecision == [quantity_precision |-> <<>>, price_precision |-> <<>>]

(***************************************************************************)
(* Bounds of the model                                                     *)
(***************************************************************************)
\* the exchange rejects an entry once the position holds this many entries
MaxStackedEntries == 2

(***************************************************************************)
(* State                                                                   *)
(***************************************************************************)
VARIABLES
    available_pairs,     \* self.available_pairs, a list of pairs
    active_trades,       \* self.active_trades: pair -> trade info
    quantity_precision,  \* self.quantity_precision
    price_precision,     \* self.price_precision
    trade_opportunities, \* the sorted opportunities run_scalping_cycle has left
    pc,                  \* where run_scalping_cycle stands
    reconciled,          \* no cycle has ended since check_scalping_trades ran
    positionAmt,         \* exchange: signed position per symbol (qty units)
    openOrders,          \* exchange: open protective orders per symbol
    last,                \* the last call of execute_scalping_trade
    fatal,               \* pairs whose emergency close has failed
    exchange_info,       \* exchange: the symbols listed, with their filters
    declined,            \* the TRADE decisions of this cycle that line 896
                         \* did not admit
    polled               \* what the last check_scalping_trades found per pair

vars == <<available_pairs, active_trades, quantity_precision, price_precision,
          trade_opportunities, pc, reconciled, positionAmt, openOrders,
          last, fatal, exchange_info, declined, polled>>

Directions == {"LONG", "SHORT"}

\* the side of the entry order, and of the orders that reduce the position
EntrySide(direction) == IF direction = "LONG" THEN "BUY" ELSE "SELL"

\* protective and closing orders sent on the side of the entry
ExitSideOfEntry(direction) == EntrySide(direction)

ExitSide(direction) == IF direction = "LONG" THEN "SELL" ELSE "BUY"
SideSign(side) == IF side = "BUY" THEN 1 ELSE -1

NoCall ==
    [pair |-> "", direction |-> "", confidence |-> 0, urgency |-> "",
     current_price |-> 0, quantity |-> 0, posBefore |-> 0,
     fatalBefore |-> FALSE,
     entry |-> "none", filled |-> 0, avgPrice |-> 0,
     positionQueried |-> FALSE, orders |-> <<>>, outcome |-> "none"]

\* a stop-loss or take-profit order flagged reduce-only, a closing order not
ReduceOnlyExceptClose(role) == role \in {"stop_loss", "take_profit"}

\* the reduceOnly argument of futures_create_order: absent for the entry
\* (lines 669-690), True for every other order (lines 752, 762, 773, 783,
\* 795, 803)
ReduceOnlyOf(role) == role # "entry"

\* one order handed to futures_create_order, and whether it was accepted
Order(role, type, side, quantity, price, reduceOnly, ok) ==
    [role |-> role, type |-> type, side |-> side, quantity |-> quantity,
     price |-> price, reduceOnly |-> reduceOnly, ok |-> ok]

\* __init__ and the first lines of start_auto_trading, on an exchange that
\* publishes one of `listings`; loadOk: futures_exchange_info answered
InitWith(listings, pairSets) ==
    /\ exchange_info \in listings
    /\ available_pairs \in pairSets
    /\ active_trades = <<>>
    /\ \E loadOk \in BOOLEAN :
         LET tables == IF loadOk THEN load_symbol_precision(exchange_info)
                       ELSE NoPrecision
         IN  /\ quantity_precision = tables.quantity_precision
             /\ price_precision = tables.price_precision
    /\ trade_opportunities = <<>>
    /\ pc = "sleep"
    /\ reconciled = TRUE
    /\ positionAmt = [p \in Symbols |-> 0]
    /\ openOrders = [p \in Symbols |-> {}]
    /\ last = NoCall
    /\ fatal = {}
    /\ declined = {}
    /\ polled = <<>>

(***************************************************************************)
(* execute_scalping_trade                                                  *)
(***************************************************************************)
\* a capacity test that lets one trade too many in
AtCapacityOffByOne(trades) ==
    Cardinality(DOMAIN trades) > max_concurrent_trades

\* len(self.active_trades) >= self.max_concurrent_trades (lines 640, 903)
AtCapacity(trades) == Cardinality(DOMAIN trades) >= max_concurrent_trades

\* a test that finds no pair registered
NeverHasActiveTrade(trades, pair) == FALSE

\* pair in self.active_trades (lines 645, 406, 889)
HasActiveTrade(trades, pair) == pair \in DOMAIN trades

\* m/1000 in lowest terms, to keep the products within TLC's integers
PerMille(m) == [n |-> m \div Gcd(m, 1000), d |-> 1000 \div Gcd(m, 1000)]

\* entry_price * (1 -/+ scalp_stop_loss), formatted (lines 702, 706, 711)
StopLossLevels(pprec, pair, direction, entry_price) ==
    format_price(pprec, pair,
                 IF direction = "LONG"
                 THEN entry_price * PerMille(1000 - scalp_stop_loss_milli).n
                 ELSE entry_price * PerMille(1000 + scalp_stop_loss_milli).n,
                 IF direction = "LONG"
                 THEN PriceScale * PerMille(1000 - scalp_stop_loss_milli).d
                 ELSE PriceScale * PerMille(1000 + scalp_stop_loss_milli).d)

\* entry_price * (1 +/- scalp_take_profit), formatted (lines 703, 707, 712)
TakeProfitLevels(pprec, pair, direction, entry_price) ==
    format_price(pprec, pair,
                 IF direction = "LONG"
                 THEN entry_price * PerMille(1000 + scalp_take_profit_milli).n
                 ELSE entry_price * PerMille(1000 - scalp_take_profit_milli).n,
                 IF direction = "LONG"
                 THEN PriceScale * PerMille(1000 + scalp_take_profit_milli).d
                 ELSE PriceScale * PerMille(1000 - scalp_take_profit_milli).d)

\* lines 715-732: a level found on the wrong side of the entry price is
\* recomputed by the expression that produced it and formatted again, which
\* yields the value it already has
ValidatedLevel(onWrongSide, level) == IF onWrongSide THEN level ELSE level

TakeProfitOnWrongSide(direction, entry_price, take_profit) ==
    IF direction = "LONG" THEN take_profit <= entry_price
    ELSE take_profit >= entry_price

StopLossOnWrongSide(direction, entry_price, stop_loss) ==
    IF direction = "LONG" THEN stop_loss >= entry_price
    ELSE stop_loss <= entry_price

\* line 735: stop_loss <= 0.01 or take_profit <= 0.01
LevelsInvalid(stop_loss, take_profit) ==
    \/ stop_loss <= PriceScale \div 100
    \/ take_profit <= PriceScale \div 100

\* line 655: current_price <= 0.1
PriceInvalid(current_price) == current_price <= PriceScale \div 10

\* the price read before the order taken as the entry price
ReferencePriceAsEntry(avgPrice, safe_entry_price) == safe_entry_price

\* lines 677-679: the avgPrice of the order response, or the price read
\* before the order when the response carries none
ActualEntry(avgPrice, safe_entry_price) ==
    IF avgPrice <= PriceScale \div 10 THEN safe_entry_price ELSE avgPrice

\* the exchange: a market order of `quantity` on `side` acting on a position
FillMarket(pos, side, quantity) == pos + SideSign(side) * quantity

\* the exchange: a reduce-only order shrinks the position, never reverses it
FillReduceOnly(pos, side, quantity) ==
    IF Sign(pos) = -SideSign(side)
    THEN pos + SideSign(side) * Min(quantity, Abs(pos))
    ELSE pos

\* the exchange: an accepted protective order rests in the book, which is
\* kept as the set of distinct resting orders of a symbol; `committed`
\* remembers whether the sequence that placed the order registered a trade
Resting(orders, role, side, quantity, committed) ==
    orders \cup {[role |-> role, side |-> side, quantity |-> quantity,
                  committed |-> committed]}

\* what one call leaves behind
Returns(call, pos, orders, trades, fatals) ==
    /\ last' = call
    /\ positionAmt' = pos
    /\ openOrders' = orders
    /\ active_trades' = trades
    /\ fatal' = fatals

ReturnsUnchanged(call) ==
    Returns(call, positionAmt, openOrders, active_trades, fatal)

(***************************************************************************)
(* The answers of the exchange to one order sequence.  `env` says which    *)
(* kinds of answer a specification lets the exchange give:                 *)
(*   env.partialFills  a market order may fill half of its quantity        *)
(*   env.slippage      avgPrice may lie 1% above the ticker price          *)
(*   env.timeouts      an entry call may raise after the order executed    *)
(*   env.rejections    a protective or closing order may be refused        *)
(*   env.pollFailures  futures_position_information may raise              *)
(*   env.pollLog       the output of check_scalping_trades is kept in      *)
(*                     `polled`                                            *)
(***************************************************************************)
OrderAnswers(env) == IF env.rejections THEN BOOLEAN ELSE {TRUE}

FillOptions(quantity, env) ==
    IF env.partialFills THEN {quantity, quantity \div 2} \ {0} ELSE {quantity}

\* avgPrice 0: the response of an order that is not yet reported filled
AvgPriceOptions(price, env) ==
    IF env.slippage THEN {0, price, price + price \div 100} ELSE {0, price}

EntryOutcomes(env) ==
    IF env.timeouts THEN {"ok", "rejected", "timeout"} ELSE {"ok", "rejected"}

\* the take-profit order sent before the stop-loss order
TakeProfitFirst(slOrder, tpOrder) == <<tpOrder, slOrder>>

\* lines 744-763, 765-784: STOP LOSS, then TAKE PROFIT
ProtectiveOrders(slOrder, tpOrder) == <<slOrder, tpOrder>>

\* lines 741-820: the protective orders, the emergency close, the commit
PlaceProtection(call, decision, quantity, entry_price, stop_loss, take_profit, pos, env) ==
    LET pair == decision.pair
        side == ExitSide(decision.direction)
        slOrder(ok) == Order("stop_loss", "STOP_MARKET", side, quantity,
                             stop_loss, ReduceOnlyOf("stop_loss"), ok)
        tpOrder(ok) == Order("take_profit", "LIMIT", side, quantity,
                             take_profit, ReduceOnlyOf("take_profit"), ok)
        closeOrder(ok) == Order("emergency_close", "MARKET", side, quantity,
                                0, ReduceOnlyOf("emergency_close"), ok)
        book == openOrders[pair]
    IN
    \E slOk, tpOk, closeOk \in OrderAnswers(env) :
       /\ ~slOk => ~tpOk
       /\ (slOk /\ tpOk) => closeOk
       /\ closeOk => (slOk /\ tpOk) \/ Sign(pos) = -SideSign(side)
       /\ IF slOk /\ tpOk
          THEN \* lines 810-820: store trade info
               Returns([call EXCEPT
                           !.orders = @ \o ProtectiveOrders(slOrder(TRUE),
                                                            tpOrder(TRUE)),
                           !.outcome = "committed"],
                       [positionAmt EXCEPT ![pair] = pos],
                       [openOrders EXCEPT ![pair] =
                           Resting(Resting(book, "stop_loss", side, quantity,
                                           TRUE),
                                   "take_profit", side, quantity, TRUE)],
                       active_trades @@
                           (pair :> [pair |-> pair,
                                     direction |-> decision.direction,
                                     entry_price |-> entry_price,
                                     quantity |-> quantity,
                                     stop_loss |-> stop_loss,
                                     take_profit |-> take_profit,
                                     confidence |-> decision.confidence]),
                       fatal)
          ELSE \* lines 785-808: TP/SL order failed, try to close, return
               LET placed == IF slOk
                             THEN ProtectiveOrders(slOrder(TRUE),
                                                   tpOrder(FALSE))
                             ELSE <<slOrder(FALSE)>>
                   book2 == IF slOk
                            THEN Resting(book, "stop_loss", side, quantity,
                                         FALSE)
                            ELSE book
               IN  Returns([call EXCEPT
                               !.orders = @ \o placed \o <<closeOrder(closeOk)>>,
                               !.outcome = IF closeOk THEN "rolled_back"
                                           ELSE "close_failed"],
                           [positionAmt EXCEPT ![pair] =
                               IF closeOk
                               THEN FillReduceOnly(pos, side, quantity)
                               ELSE pos],
                           [openOrders EXCEPT ![pair] = book2],
                           active_trades,
                           IF closeOk THEN fatal ELSE fatal \cup {pair})

\* lines 697-739: the levels from the entry price, validated
ProtectFilledEntry(call, decision, quantity, entry_price, pos, env) ==
    LET pair == decision.pair
        direction == decision.direction
    IN
    \E stop_loss0 \in StopLossLevels(price_precision, pair, direction,
                                     entry_price),
       take_profit0 \in TakeProfitLevels(price_precision, pair, direction,
                                         entry_price) :
       LET take_profit ==
               ValidatedLevel(TakeProfitOnWrongSide(direction, entry_price,
                                                    take_profit0),
                              take_profit0)
           stop_loss ==
               ValidatedLevel(StopLossOnWrongSide(direction, entry_price,
                                                  stop_loss0),
                              stop_loss0)
       IN  IF LevelsInvalid(stop_loss, take_profit)
           THEN Returns([call EXCEPT !.outcome = "invalid_levels"],
                        [positionAmt EXCEPT ![pair] = pos],
                        openOrders, active_trades, fatal)
           ELSE PlaceProtection(call, decision, quantity, entry_price,
                                stop_loss, take_profit, pos, env)

\* lines 631-828
execute_scalping_trade(decision, env) ==
    LET pair == decision.pair
        direction == decision.direction
        call == [NoCall EXCEPT !.pair = pair, !.direction = direction,
                               !.confidence = decision.confidence,
                               !.urgency = decision.urgency,
                               !.posBefore = positionAmt[pair],
                               !.fatalBefore = pair \in fatal]
    IN
    IF AtCapacity(active_trades)
    THEN ReturnsUnchanged([call EXCEPT !.outcome = "skipped_capacity"])
    ELSE IF HasActiveTrade(active_trades, pair)
    THEN ReturnsUnchanged([call EXCEPT !.outcome = "skipped_active"])
    ELSE
    \E tickerOk \in BOOLEAN :
      IF ~tickerOk
      THEN \* futures_symbol_ticker raised: the handler of line 825
           ReturnsUnchanged([call EXCEPT !.outcome = "error"])
      ELSE
      LET current_price == Price(pair) IN
      IF PriceInvalid(current_price)
      THEN ReturnsUnchanged([call EXCEPT !.current_price = current_price,
                                         !.outcome = "invalid_price"])
      ELSE
      \E quantity \in get_quantity(quantity_precision, pair, current_price),
         entry \in EntryOutcomes(env) :
        LET side == EntrySide(direction)
            entryOrder(ok) == Order("entry", "MARKET", side, quantity, 0,
                                    ReduceOnlyOf("entry"), ok)
            call1(ok) == [call EXCEPT !.current_price = current_price,
                                      !.quantity = quantity,
                                      !.entry = entry,
                                      !.orders = <<entryOrder(ok)>>]
        IN
        IF entry = "rejected"
        THEN ReturnsUnchanged([call1(FALSE) EXCEPT !.outcome = "entry_failed"])
        ELSE
        /\ Abs(positionAmt[pair]) < MaxStackedEntries * quantity
        /\ \E filled \in FillOptions(quantity, env) :
             LET pos == FillMarket(positionAmt[pair], side, filled) IN
             IF entry = "timeout"
             THEN \* lines 693-695: the call raised, the order had executed
                  Returns([call1(FALSE) EXCEPT !.filled = filled,
                                               !.outcome = "entry_failed"],
                          [positionAmt EXCEPT ![pair] = pos],
                          openOrders, active_trades, fatal)
             ELSE \E avgPrice \in AvgPriceOptions(current_price, env) :
                     ProtectFilledEntry([call1(TRUE) EXCEPT
                                            !.filled = filled,
                                            !.avgPrice = avgPrice],
                                        decision, quantity,
                                        ActualEntry(avgPrice, current_price),
                                        pos, env)

(***************************************************************************)
(* run_scalping_cycle                                                      *)
(***************************************************************************)
\* get_ai_recommended_pairs: the pairs used when the AI call fails
fallback_pairs ==
    <<"ETHUSDT", "BNBUSDT", "SOLUSDT", "ADAUSDT", "XRPUSDT", "AVAXUSDT",
      "MATICUSDT">>

Range(seq) == {seq[i] : i \in DOMAIN seq}

\* lines 242, 347 and 269: BTCUSDT is taken out of every recommendation
IsAllowed(pair) == pair \notin blacklisted_pairs

Recommended(pairs) == SelectSeq(pairs, IsAllowed)

\* get_ai_recommended_pairs: a validated recommendation (which may be empty)
\* or, when the AI call fails, the fallback pairs
get_ai_recommended_pairs(env) ==
    {Recommended(pairs) : pairs \in env.pairLists} \cup {<<>>}
    \cup (IF env.aiFailures THEN {fallback_pairs} ELSE {})

\* auto_rotate_pairs: when the rotation is due or no pair is available, the
\* pairs of a successful rotation (never empty), else the recommendation
auto_rotate_pairs(pairs, due, env) ==
    IF due \/ pairs = <<>>
    THEN ({Recommended(new_pairs) : new_pairs \in env.pairLists} \ {<<>>})
         \cup get_ai_recommended_pairs(env)
    ELSE {pairs}

\* a test that admits a TRADE decision of any confidence
IsOpportunityAtAnyConfidence(decision) == decision.action = "TRADE"

\* line 896: decision["action"] == "TRADE" and decision["confidence"] >= 65
IsOpportunity(decision) ==
    decision.action = "TRADE" /\ decision.confidence >= MinConfidence

\* line 906: decision.get("urgency", "medium"); "" stands for a decision
\* without an urgency
Urgency(decision) ==
    IF decision.urgency = "" THEN "medium" ELSE decision.urgency

\* a gate that lets every urgency through
PassesAnyUrgency(decision) == TRUE

\* line 907: urgency == "high" or (urgency == "medium" and confidence >= 70)
PassesUrgencyGate(decision) ==
    \/ Urgency(decision) = "high"
    \/ Urgency(decision) = "medium"
       /\ decision.confidence >= MediumUrgencyConfidence

\* what the decision source may answer for one pair: the JSON object of
\* line 537 is returned as it was parsed, so its "pair" is the name the
\* source wrote, which need not be the pair it was asked about
DecisionsFor(pair, env) ==
    {[action |-> "SKIP", pair |-> pair, direction |-> "LONG",
      confidence |-> 40, urgency |-> "low"]}
    \cup {[action |-> "TRADE", pair |-> name, direction |-> d,
           confidence |-> g.confidence, urgency |-> g.urgency] :
             name \in {pair} \cup env.pairNames,
             d \in env.directions, g \in env.grades}

\* lines 886-892: get_scalping_decision is called once for every entry of
\* available_pairs that has market data (an entry listed twice is asked
\* twice); NoDecision stands for an entry that is passed over
NoDecision ==
    [action |-> "NONE", pair |-> "", direction |-> "", confidence |-> 0,
     urgency |-> ""]

Asked(pairs, market_data) == {i \in DOMAIN pairs : pairs[i] \in market_data}

Decisions(pairs, market_data, decision) ==
    [i \in DOMAIN pairs |->
        IF i \in Asked(pairs, market_data) THEN decision[i] ELSE NoDecision]

\* lines 886-897: the opportunities, in the order of available_pairs
Opportunities(pairs, market_data, decision) ==
    SelectSeq(Decisions(pairs, market_data, decision), IsOpportunity)

\* the TRADE decisions that line 896 leaves out
Declined(pairs, market_data, decision) ==
    {d \in Range(Decisions(pairs, market_data, decision)) :
        d.action = "TRADE" /\ ~IsOpportunity(d)}

\* line 900: sort(key=confidence, reverse=True), a stable sort
RECURSIVE InsertByConfidence(_, _)
InsertByConfidence(sorted, d) ==
    IF sorted = <<>> THEN <<d>>
    ELSE IF Head(sorted).confidence >= d.confidence
         THEN <<Head(sorted)>> \o InsertByConfidence(Tail(sorted), d)
         ELSE <<d>> \o sorted

\* the opportunities left in the order of available_pairs
Unsorted(opps) == opps

RECURSIVE SortByConfidence(_)
SortByConfidence(opps) ==
    IF opps = <<>> THEN <<>>
    ELSE InsertByConfidence(
             SortByConfidence(SubSeq(opps, 1, Len(opps) - 1)),
             opps[Len(opps)])

\* lines 865-900: rotation, market data, decisions, the sorted opportunities
BeginCycle(env) ==
    /\ pc = "sleep"
    /\ \E due \in BOOLEAN :
       \E rotated \in auto_rotate_pairs(available_pairs, due, env) :
       \E pairs \in (IF rotated = <<>> THEN get_ai_recommended_pairs(env)
                     ELSE {rotated}) :
       \* get_detailed_market_data: no entry for a pair with an active trade
       \* or whose ticker or klines call fails
       \E market_data \in
              SUBSET {p \in Range(pairs) \cap DOMAIN exchange_info :
                         ~HasActiveTrade(active_trades, p)} :
          /\ available_pairs' = pairs
          /\ IF market_data = {}
             THEN \* line 874: no market data, skipping cycle
                  /\ trade_opportunities' = <<>>
                  /\ declined' = {}
                  /\ pc' = "sleep"
             ELSE \E decision \in [Asked(pairs, market_data) ->
                                     UNION {DecisionsFor(p, env) :
                                               p \in market_data}] :
                    /\ \A i \in Asked(pairs, market_data) :
                          decision[i] \in DecisionsFor(pairs[i], env)
                    /\ trade_opportunities' =
                          SortByConfidence(
                              Opportunities(pairs, market_data, decision))
                    /\ declined' = Declined(pairs, market_data, decision)
                    /\ pc' = IF trade_opportunities' = <<>> THEN "check"
                             ELSE "execute"
    /\ reconciled' = FALSE
    /\ last' = NoCall
    /\ polled' = <<>>
    /\ UNCHANGED <<active_trades, quantity_precision, price_precision,
                   positionAmt, openOrders, fatal, exchange_info>>

\* a handler that lets the error of a call end the loop
AfterCallUnlessError(outcome, next) ==
    IF outcome = "error" THEN "crashed" ELSE next

\* lines 825-828: the handler of execute_scalping_trade prints the error and
\* returns, so the loop of line 902 goes on whatever the outcome of the call
AfterCall(outcome, next) == next

\* lines 902-910: the next opportunity of the sorted list
ExecuteNext(env) ==
    /\ pc = "execute"
    /\ trade_opportunities # <<>>
    /\ LET decision == Head(trade_opportunities) IN
       IF AtCapacity(active_trades)
       THEN \* lines 903-904: break, the opportunity and those after it are
            \* dropped
            /\ trade_opportunities' = <<>>
            /\ pc' = "check"
            /\ last' = [NoCall EXCEPT !.pair = decision.pair,
                                      !.direction = decision.direction,
                                      !.confidence = decision.confidence,
                                      !.urgency = decision.urgency,
                                      !.outcome = "dropped_capacity"]
            /\ UNCHANGED <<active_trades, positionAmt, openOrders, fatal>>
       ELSE /\ trade_opportunities' = Tail(trade_opportunities)
            /\ IF PassesUrgencyGate(decision)
               THEN execute_scalping_trade(decision, env)
               ELSE \* line 907: the opportunity is passed over
                    /\ last' = [NoCall EXCEPT !.pair = decision.pair,
                                              !.direction = decision.direction,
                                              !.confidence = decision.confidence,
                                              !.urgency = decision.urgency,
                                              !.outcome = "gated"]
                    /\ UNCHANGED <<active_trades, positionAmt, openOrders,
                                   fatal>>
            /\ pc' = AfterCall(last'.outcome,
                               IF trade_opportunities' = <<>> THEN "check"
                               ELSE "execute")
    /\ UNCHANGED <<available_pairs, quantity_precision, price_precision,
                   reconciled, exchange_info, declined, polled>>

(***************************************************************************)
(* check_scalping_trades (lines 830-863): `failing` are the pairs whose    *)
(* futures_position_information call raises                                *)
(***************************************************************************)
PollFailures(registered, env) ==
    IF env.pollFailures THEN SUBSET registered ELSE {{}}

\* a pass that removes every entry without a position, polled or not
CompletedTradesDespiteErrors(trades, pos, failing) ==
    {p \in DOMAIN trades : pos[p] = 0}

\* a pass that an error of one poll brings to an end
CompletedTradesUnlessError(trades, pos, failing) ==
    IF failing = {} THEN {p \in DOMAIN trades : pos[p] = 0} ELSE {}

CompletedTrades(trades, pos, failing) ==
    {p \in DOMAIN trades : p \notin failing /\ pos[p] = 0}

\* what the pass prints per registered pair: "TRADE COMPLETED" (line 848),
\* "Trade check error" (line 856), or nothing while the position is open
PollResults(trades, pos, failing) ==
    [p \in DOMAIN trades |->
        IF p \in failing THEN "error"
        ELSE IF pos[p] = 0 THEN "completed" ELSE "open"]

Without(trades, pairs) ==
    [p \in DOMAIN trades \ pairs |-> trades[p]]

\* a pass over the registered pairs that are still available
PolledAvailablePairs(trades, pairs) == DOMAIN trades \cap Range(pairs)

\* line 837: the pass goes over every entry of active_trades, whatever
\* available_pairs holds
PolledPairs(trades, pairs) == DOMAIN trades

check_scalping_trades(env) ==
    /\ pc = "check"
    /\ LET registered == PolledPairs(active_trades, available_pairs) IN
       \E failing \in PollFailures(registered, env) :
          /\ active_trades' =
                Without(active_trades,
                        registered \cap CompletedTrades(active_trades,
                                                        positionAmt, failing))
          /\ polled' = IF env.pollLog
                       THEN [p \in registered |->
                               PollResults(active_trades, positionAmt,
                                           failing)[p]]
                       ELSE <<>>
    /\ pc' = "sleep"
    /\ reconciled' = TRUE
    /\ last' = NoCall
    /\ UNCHANGED <<available_pairs, quantity_precision, price_precision,
                   trade_opportunities, positionAmt, openOrders, fatal,
                   exchange_info, declined>>

(***************************************************************************)
(* The exchange acting on its own                                          *)
(***************************************************************************)
\* a resting stop-loss or take-profit order triggers and fills
ProtectiveFill ==
    \E p \in Symbols : \E o \in openOrders[p] :
       /\ Sign(positionAmt[p]) = -SideSign(o.side)
       /\ positionAmt' = [positionAmt EXCEPT ![p] =
                             FillReduceOnly(@, o.side, o.quantity)]
       /\ openOrders' = [openOrders EXCEPT ![p] = @ \ {o}]
       /\ UNCHANGED <<available_pairs, active_trades, quantity_precision,
                      price_precision, trade_opportunities, pc, reconciled,
                      last, fatal, exchange_info, declined, polled>>

\* the position is closed from outside the engine (by hand, by liquidation)
ExternalClose ==
    \E p \in Symbols :
       /\ positionAmt[p] # 0
       /\ positionAmt' = [positionAmt EXCEPT ![p] = 0]
       /\ UNCHANGED <<available_pairs, active_trades, quantity_precision,
                      price_precision, trade_opportunities, pc, reconciled,
                      openOrders, last, fatal, exchange_info, declined,
                      polled>>

(***************************************************************************)
(* start_auto_trading (lines 918-955)                                      *)
(***************************************************************************)
\* lines 948-952: KeyboardInterrupt, the only exception that leaves the loop
\* of line 928
KeyboardInterrupt ==
    /\ pc \in {"sleep", "execute", "check"}
    /\ pc' = "interrupted"
    /\ UNCHANGED <<available_pairs, active_trades, quantity_precision,
                   price_precision, trade_opportunities, reconciled,
                   positionAmt, openOrders, last, fatal, exchange_info,
                   declined, polled>>

(***************************************************************************)
(* Specifications                                                          *)
(***************************************************************************)
Grade(confidence, urgency) == [confidence |-> confidence, urgency |-> urgency]

AllPairs == <<"BNBUSDT", "SOLUSDT", "AVAXUSDT", "ADAUSDT">>

\* Spec: every pair of the exchange in play, an exchange that accepts the
\* protective orders
EnvCycle ==
    [partialFills |-> FALSE, slippage |-> FALSE, timeouts |-> FALSE,
     rejections |-> FALSE, pollFailures |-> TRUE, pollLog |-> FALSE,
     aiFailures |-> FALSE,
     directions |-> {"LONG"},
     grades |-> {Grade(80, "high")},
     pairNames |-> {},
     pairLists |-> {AllPairs}]

Init == InitWith({ListingFives(Pairs)}, {AllPairs})

Next ==
    \/ BeginCycle(EnvCycle)
    \/ ExecuteNext(EnvCycle)
    \/ check_scalping_trades(EnvCycle)
    \/ ProtectiveFill
    \/ ExternalClose

Spec == Init /\ [][Next]_vars

\* SpecSeq: an exchange that lists one symbol and may answer an order
\* sequence in every way
SingleListings ==
    {ListingOnes({"AVAXUSDT"}), ListingFives({"AVAXUSDT"}),
     ListingOnes({"ADAUSDT"})}

EnvSeq ==
    [partialFills |-> TRUE, slippage |-> TRUE, timeouts |-> TRUE,
     rejections |-> TRUE, pollFailures |-> TRUE, pollLog |-> TRUE,
     aiFailures |-> TRUE,
     directions |-> Directions,
     grades |-> {Grade(80, "high")},
     pairNames |-> {},
     pairLists |-> {AllPairs}]

InitSeq == InitWith(SingleListings, {AllPairs})

NextSeq ==
    \/ BeginCycle(EnvSeq)
    \/ ExecuteNext(EnvSeq)
    \/ check_scalping_trades(EnvSeq)
    \/ ProtectiveFill
    \/ ExternalClose

SpecSeq == InitSeq /\ [][NextSeq]_vars

\* SpecPass: three listed symbols, one of them twice in the list of pairs,
\* orders that the exchange accepts, position queries that may fail
PassPairs == <<"SOLUSDT", "AVAXUSDT", "ADAUSDT", "ADAUSDT">>

EnvPass ==
    [partialFills |-> FALSE, slippage |-> FALSE, timeouts |-> FALSE,
     rejections |-> FALSE, pollFailures |-> TRUE, pollLog |-> TRUE,
     aiFailures |-> FALSE,
     directions |-> {"LONG"},
     grades |-> {Grade(80, "high")},
     pairNames |-> {},
     pairLists |-> {PassPairs}]

InitPass == InitWith({ListingFives(Range(PassPairs))}, {PassPairs})

NextPass ==
    \/ BeginCycle(EnvPass)
    \/ ExecuteNext(EnvPass)
    \/ check_scalping_trades(EnvPass)
    \/ ProtectiveFill
    \/ ExternalClose

SpecPass == InitPass /\ [][NextPass]_vars

\* SpecGate: two listed symbols and a decision source that grades its
\* TRADE decisions in several ways; Grade(60, "medium") is the grade of
\* get_scalping_fallback (lines 601-626)
GatePairs == <<"SOLUSDT", "AVAXUSDT">>

EnvGate ==
    [partialFills |-> FALSE, slippage |-> FALSE, timeouts |-> FALSE,
     rejections |-> FALSE, pollFailures |-> FALSE, pollLog |-> FALSE,
     aiFailures |-> FALSE,
     directions |-> {"LONG"},
     grades |-> {Grade(60, "high"), Grade(60, "medium"), Grade(65, "medium"),
                 Grade(70, "medium"), Grade(75, "low"), Grade(80, "high"),
                 Grade(65, ""), Grade(70, "")},
     pairNames |-> {},
     pairLists |-> {GatePairs}]

InitGate == InitWith({ListingFives(Range(GatePairs))}, {GatePairs})

NextGate ==
    \/ BeginCycle(EnvGate)
    \/ ExecuteNext(EnvGate)
    \/ check_scalping_trades(EnvGate)
    \/ ProtectiveFill
    \/ ExternalClose

SpecGate == InitGate /\ [][NextGate]_vars

\* SpecQty: get_quantity on its own, for every listed pair at each of a
\* range of reference prices, under the precision tables of either listing
QuotePrices ==
    {PriceScale \div 2, 31 * PriceScale, 61 * PriceScale, 95 * PriceScale,
     150 * PriceScale, 333 * PriceScale, 600 * PriceScale, 999 * PriceScale}

\* one call get_quantity(pair, price), as line 660 makes it
Quote ==
    /\ \E pair \in Pairs, price \in QuotePrices :
       \E quantity \in get_quantity(quantity_precision, pair, price) :
          last' = [NoCall EXCEPT !.pair = pair, !.current_price = price,
                                 !.quantity = quantity, !.outcome = "quoted"]
    /\ UNCHANGED <<available_pairs, active_trades, quantity_precision,
                   price_precision, trade_opportunities, pc, reconciled,
                   positionAmt, openOrders, fatal, exchange_info, declined,
                   polled>>

InitQty == InitWith({ListingOnes(Pairs), ListingFives(Pairs)}, {AllPairs})

NextQty == Quote

SpecQty == InitQty /\ [][NextQty]_vars

\* SpecRank: four listed pairs whose decisions differ in confidence, so that
\* the order of execution and the capacity of the registry both matter;
\* positions end by being closed from outside
EnvRank ==
    [partialFills |-> FALSE, slippage |-> FALSE, timeouts |-> FALSE,
     rejections |-> FALSE, pollFailures |-> FALSE, pollLog |-> FALSE,
     aiFailures |-> FALSE,
     directions |-> {"LONG"},
     grades |-> {Grade(70, "high"), Grade(90, "high")},
     pairNames |-> {},
     pairLists |-> {AllPairs}]

InitRank == InitWith({ListingFives(Pairs)}, {AllPairs})

NextRank ==
    \/ BeginCycle(EnvRank)
    \/ ExecuteNext(EnvRank)
    \/ check_scalping_trades(EnvRank)
    \/ ExternalClose

SpecRank == InitRank /\ [][NextRank]_vars

\* SpecName: a decision source that recommends BTCUSDT among the pairs and
\* that may name BTCUSDT in the decision it returns for another pair
NamePairs == <<"BTCUSDT", "AVAXUSDT">>

EnvName ==
    [partialFills |-> FALSE, slippage |-> FALSE, timeouts |-> FALSE,
     rejections |-> FALSE, pollFailures |-> FALSE, pollLog |-> FALSE,
     aiFailures |-> FALSE,
     directions |-> {"LONG"},
     grades |-> {Grade(80, "high")},
     pairNames |-> {"BTCUSDT"},
     pairLists |-> {NamePairs}]

InitName == InitWith({ListingOnes(Range(NamePairs))}, {Recommended(NamePairs)})

NextName ==
    \/ BeginCycle(EnvName)
    \/ ExecuteNext(EnvName)
    \/ check_scalping_trades(EnvName)
    \/ ProtectiveFill
    \/ ExternalClose

SpecName == InitName /\ [][NextName]_vars

\* SpecRotate: a rotation that swaps the available pairs between two lists
RotatePairLists == {<<"SOLUSDT">>, <<"ADAUSDT">>}

EnvRotate ==
    [partialFills |-> FALSE, slippage |-> FALSE, timeouts |-> FALSE,
     rejections |-> FALSE, pollFailures |-> TRUE, pollLog |-> TRUE,
     aiFailures |-> FALSE,
     directions |-> {"LONG"},
     grades |-> {Grade(80, "high")},
     pairNames |-> {},
     pairLists |-> RotatePairLists]

InitRotate == InitWith({ListingFives({"SOLUSDT", "ADAUSDT"})}, RotatePairLists)

NextRotate ==
    \/ BeginCycle(EnvRotate)
    \/ ExecuteNext(EnvRotate)
    \/ check_scalping_trades(EnvRotate)
    \/ ProtectiveFill
    \/ ExternalClose

SpecRotate == InitRotate /\ [][NextRotate]_vars

\* SpecLoop: the main loop with its interrupt, on an exchange whose calls
\* may fail; every step of the loop ends (the sleeps are finite and the
\* requests have timeouts), hence the weak fairness of the loop's steps
EnvLoop ==
    [partialFills |-> FALSE, slippage |-> FALSE, timeouts |-> TRUE,
     rejections |-> TRUE, pollFailures |-> TRUE, pollLog |-> FALSE,
     aiFailures |-> TRUE,
     directions |-> {"LONG"},
     grades |-> {Grade(80, "high")},
     pairNames |-> {},
     pairLists |-> {AllPairs}]

InitLoop == InitWith({ListingFives({"AVAXUSDT"})}, {AllPairs})

LoopStep ==
    \/ BeginCycle(EnvLoop)
    \/ ExecuteNext(EnvLoop)
    \/ check_scalping_trades(EnvLoop)

NextLoop ==
    \/ LoopStep
    \/ KeyboardInterrupt
    \/ ProtectiveFill
    \/ ExternalClose

SpecLoop == InitLoop /\ [][NextLoop]_vars /\ WF_vars(LoopStep)

(***************************************************************************)
(* Claims                                                                  *)
(***************************************************************************)

\* C1: in every reachable state the position registry (active_trades) holds
\* at most max_concurrent_trades entries.
C1_RegistryBounded ==
    Cardinality(DOMAIN active_trades) <= max_concurrent_trades

\* C1 witness: the registry is full while a further opportunity of the
\* cycle is still waiting to be executed.
C1_Witness ==
    /\ Cardinality(DOMAIN active_trades) = max_concurrent_trades
    /\ pc = "execute"
    /\ trade_opportunities # <<>>


\* the orders of the last call with a given role
OrdersOf(role) == {i \in DOMAIN last.orders : last.orders[i].role = role}
Protective == OrdersOf("stop_loss") \cup OrdersOf("take_profit")
EntrySubmitted == OrdersOf("entry") # {}

\* C3: whenever the stop-loss or the take-profit placement fails after the
\* entry order filled, an emergency close follows (a MARKET order for the
\* entry quantity on the side opposite to the entry) and the trade is not
\* registered.
C3_EmergencyCloseOnFailure ==
    \A i \in Protective :
       ~last.orders[i].ok =>
          /\ \E j \in OrdersOf("emergency_close") :
                /\ j > i
                /\ last.orders[j].type = "MARKET"
                /\ last.orders[j].quantity = last.orders[1].quantity
                /\ last.orders[j].side # last.orders[1].side
          /\ ~HasActiveTrade(active_trades, last.pair)

\* C3 witness: the entry filled, the take-profit placement failed and the
\* emergency close was submitted.
C3_Witness ==
    /\ last.entry = "ok"
    /\ \E i \in OrdersOf("take_profit") : ~last.orders[i].ok
    /\ OrdersOf("emergency_close") # {}

\* C5: within one order sequence the stop-loss and take-profit orders are
\* submitted only after the entry order succeeded, stop-loss before
\* take-profit; when the entry order fails no other order is submitted and
\* no registry entry is created.
C5_OrderSequencing ==
    /\ \A i \in Protective :
          /\ i > 1
          /\ last.orders[1].role = "entry"
          /\ last.orders[1].ok
    /\ \A t \in OrdersOf("take_profit") :
          \E sl \in OrdersOf("stop_loss") : sl < t /\ last.orders[sl].ok
    /\ (EntrySubmitted /\ ~last.orders[1].ok) =>
          /\ Len(last.orders) = 1
          /\ ~HasActiveTrade(active_trades, last.pair)

\* C5 witness: a sequence that placed entry, stop-loss and take-profit.
C5_Witness ==
    /\ last.outcome = "committed"
    /\ OrdersOf("stop_loss") # {}
    /\ OrdersOf("take_profit") # {}


\* C2: no entry order is submitted for an instrument while a position the
\* engine opened earlier on it is still open on the exchange.
C2_NoDoubleEntry == EntrySubmitted => last.posBefore = 0

\* C4: after an emergency close has failed for an instrument no further
\* entry order is submitted for it (the code has no acknowledgement that
\* could lift the halt).
C4_HaltAfterFailedClose == EntrySubmitted => ~last.fatalBefore

\* C6: every registered trade has its protective levels on the correct side
\* of its entry price: LONG stop_loss < entry_price < take_profit, SHORT
\* take_profit < entry_price < stop_loss.
C6_LevelsOnCorrectSide ==
    \A p \in DOMAIN active_trades :
       LET t == active_trades[p] IN
       IF t.direction = "LONG"
       THEN t.stop_loss < t.entry_price /\ t.entry_price < t.take_profit
       ELSE t.take_profit < t.entry_price /\ t.entry_price < t.stop_loss

\* C7: every cycle runs the reconciliation pass: whenever the engine is
\* between two cycles, the cycle that ended ran check_scalping_trades.
C7_ReconciledEveryCycle == pc = "sleep" => reconciled

\* C8: once a trade has been released from the registry, no stop-loss or
\* take-profit order placed for it is still open on the exchange.
C8_NoOrphanedProtection ==
    \A p \in Pairs :
       ~HasActiveTrade(active_trades, p) =>
          \A o \in openOrders[p] : ~o.committed

\* C9: an entry call that timed out is reconciled: the engine queries the
\* position, and an entry that filled is not left open on the exchange
\* without a registry entry.
C9_TimeoutReconciled ==
    (last.entry = "timeout" /\ last.filled > 0) =>
       /\ last.positionQueried
       /\ \/ HasActiveTrade(active_trades, last.pair)
          \/ positionAmt[last.pair] = 0

\* C10: the stop-loss, take-profit and emergency close orders are sized to
\* the quantity the entry order actually filled.
C10_SizedToFilledQuantity ==
    \A i \in Protective \cup OrdersOf("emergency_close") :
       last.orders[i].quantity = last.filled

\* C11: every stop-loss, take-profit and emergency close order is flagged
\* reduce-only and is on the side opposite to the entry order of its
\* sequence: SELL after a LONG (BUY) entry, BUY after a SHORT (SELL) entry.
C11_ReduceOnlyOppositeSide ==
    \A i \in Protective \cup OrdersOf("emergency_close") :
       /\ last.orders[i].reduceOnly
       /\ last.orders[1].role = "entry"
       /\ last.orders[1].side = (IF last.direction = "LONG" THEN "BUY"
                                 ELSE "SELL")
       /\ last.orders[i].side = (IF last.direction = "LONG" THEN "SELL"
                                 ELSE "BUY")

\* C11 witness: a SHORT sequence whose stop-loss was placed, whose
\* take-profit failed and whose emergency close went through.
C11_Witness ==
    /\ last.direction = "SHORT"
    /\ last.outcome = "rolled_back"
    /\ OrdersOf("take_profit") # {}
    /\ OrdersOf("emergency_close") # {}

PassStep == pc = "check" /\ pc' = "sleep"

\* C13: a reconciliation pass removes a registry entry only if the query of
\* that pass succeeded and reported no open position; an entry whose
\* instrument has an open position or whose query failed stays unchanged.
C13_RemovalOnlyWhenFlat ==
    [][PassStep =>
         /\ DOMAIN active_trades' \subseteq DOMAIN active_trades
         /\ \A p \in DOMAIN active_trades :
               /\ p \notin DOMAIN active_trades' =>
                     polled'[p] = "completed" /\ positionAmt[p] = 0
               /\ (positionAmt[p] # 0 \/ polled'[p] = "error") =>
                     /\ p \in DOMAIN active_trades'
                     /\ active_trades'[p] = active_trades[p]]_vars

\* C13 witness: a pass has removed one entry and kept another whose
\* position is open.
C13_Witness ==
    /\ pc = "sleep"
    /\ \E p, q \in DOMAIN polled :
          /\ polled[p] = "completed" /\ p \notin DOMAIN active_trades
          /\ polled[q] = "open" /\ q \in DOMAIN active_trades

\* C14: when polling one registered instrument raises, every registered
\* instrument is still polled in the pass and removed if its position is
\* gone, the failing entry is kept for the next pass, and the cycle goes on.
C14_PollFailuresIsolated ==
    [][PassStep =>
         /\ DOMAIN polled' = DOMAIN active_trades
         /\ \A p \in DOMAIN active_trades :
               /\ (polled'[p] # "error" /\ positionAmt[p] = 0) =>
                     p \notin DOMAIN active_trades'
               /\ polled'[p] = "error" =>
                     /\ p \in DOMAIN active_trades'
                     /\ active_trades'[p] = active_trades[p]]_vars

\* C14 witness: in one pass the poll of one pair raised and another pair,
\* whose position is gone, was removed.
C14_Witness ==
    /\ pc = "sleep"
    /\ \E p, q \in DOMAIN polled :
          /\ polled[p] = "error" /\ p \in DOMAIN active_trades
          /\ polled[q] = "completed" /\ q \notin DOMAIN active_trades

\* C15: what reconciliation reports for a trade it releases is a close
\* reason: TAKE_PROFIT_FILLED, STOP_LOSS_FILLED or EXTERNALLY_CLOSED.
C15_CloseReasonReported ==
    \A p \in DOMAIN polled :
       p \notin DOMAIN active_trades =>
          polled[p] \in {"TAKE_PROFIT_FILLED", "STOP_LOSS_FILLED",
                         "EXTERNALLY_CLOSED"}

\* C16: a signal that comes up while the registry is at capacity, or for a
\* pair that has a registry entry, is skipped: no order is submitted and
\* the registry, the position and the order book stay as they are.
C16_SkippedSignalFrame ==
    [][(/\ pc = "execute"
        /\ trade_opportunities # <<>>
        /\ trade_opportunities' # trade_opportunities
        /\ \/ Cardinality(DOMAIN active_trades) >= max_concurrent_trades
           \/ Head(trade_opportunities).pair \in DOMAIN active_trades
        /\ PassesUrgencyGate(Head(trade_opportunities)))
       => /\ last'.pair = Head(trade_opportunities).pair
          /\ last'.orders = <<>>
          /\ active_trades' = active_trades
          /\ positionAmt' = positionAmt
          /\ openOrders' = openOrders]_vars

\* C16 witness: with room left in the registry, a signal for a pair that
\* is registered was skipped.
C16_Witness ==
    /\ last.outcome = "skipped_active"
    /\ last.pair \in DOMAIN active_trades
    /\ Cardinality(DOMAIN active_trades) < max_concurrent_trades
    /\ last.orders = <<>>

\* C17: whenever a signal is rejected because its price or its stop-loss or
\* take-profit level is invalid, no order has been submitted for it.
C17_ValidationBeforeGateway ==
    last.outcome \in {"invalid_price", "invalid_levels"} =>
       last.orders = <<>>

\* C18: a signal whose confidence is below 65 never causes an entry order,
\* whatever its urgency: every entry order and every registered trade stems
\* from a decision of confidence 65 or more.
C18_LowConfidenceRejected ==
    /\ EntrySubmitted => last.confidence >= MinConfidence
    /\ \A p \in DOMAIN active_trades :
          active_trades[p].confidence >= MinConfidence

\* C18 witness: a cycle whose decisions held a TRADE of confidence 60 and
\* high urgency has run to its end.
C18_Witness ==
    /\ pc = "sleep"
    /\ reconciled
    /\ \E d \in declined :
          d.urgency = "high" /\ d.confidence < MinConfidence

\* the number a stepSize string of the exchange stands for, in units of
\* 1/scale
Digit(c) ==
    CASE c = "0" -> 0 [] c = "1" -> 1 [] c = "2" -> 2 [] c = "3" -> 3
      [] c = "4" -> 4 [] c = "5" -> 5 [] c = "6" -> 6 [] c = "7" -> 7
      [] c = "8" -> 8 [] c = "9" -> 9

RECURSIVE DigitsValue(_)
DigitsValue(s) ==
    IF s = <<>> THEN 0
    ELSE 10 * DigitsValue(SubSeq(s, 1, Len(s) - 1)) + Digit(s[Len(s)])

DecimalUnits(s, scale) ==
    LET frac == IF Contains(s, ".") THEN AfterDot(s) ELSE <<>>
        whole == IF Contains(s, ".")
                 THEN SubSeq(s, 1, Len(s) - Len(frac) - 1) ELSE s
    IN  DigitsValue(whole) * scale
        + (DigitsValue(frac) * scale) \div Pow10(Len(frac))

\* the LOT_SIZE step of a listed pair, in quantity units
QuantityStep(pair) == DecimalUnits(exchange_info[pair].stepSize, QtyScale)

\* C19: the quantity get_quantity returns is a non-negative integer multiple
\* of the instrument's quantity step.
C19_QuantityOnStep ==
    last.outcome = "quoted" =>
       /\ last.quantity >= 0
       /\ last.quantity % QuantityStep(last.pair) = 0

\* C20: the notional quantity * price of the quantity get_quantity returns
\* does not exceed trade_size_usd by more than the tolerance of 25%.
C20_NotionalWithinTolerance ==
    last.outcome = "quoted" =>
       last.quantity <=
          (trade_size_usd * 125 * ((PriceScale * QtyScale) \div 100))
              \div last.current_price

\* C21: unless the quantity was raised to the minimum quantity, the
\* quantity get_quantity returns never exceeds trade_size_usd / price.
C21_QuantityRoundedDown ==
    (last.outcome = "quoted"
     /\ last.quantity # get_minimum_quantity(last.pair)) =>
       last.quantity <=
          (trade_size_usd * PriceScale * QtyScale) \div last.current_price

\* C22: the rounded stop-loss is never closer to the entry price than
\* entry_price * (1 -/+ scalp_stop_loss), the rounded take-profit never
\* farther from it than entry_price * (1 +/- scalp_take_profit), and no
\* level lies on or across the entry price.
C22_ConservativeRounding ==
    \A p \in DOMAIN active_trades :
       LET t == active_trades[p] IN
       IF t.direction = "LONG"
       THEN /\ t.stop_loss * 1000
                  <= t.entry_price * (1000 - scalp_stop_loss_milli)
            /\ t.take_profit * 1000
                  <= t.entry_price * (1000 + scalp_take_profit_milli)
            /\ t.stop_loss < t.entry_price
            /\ t.entry_price < t.take_profit
       ELSE /\ t.stop_loss * 1000
                  >= t.entry_price * (1000 + scalp_stop_loss_milli)
            /\ t.take_profit * 1000
                  >= t.entry_price * (1000 - scalp_take_profit_milli)
            /\ t.take_profit < t.entry_price
            /\ t.entry_price < t.stop_loss

\* C23: no order is submitted for an instrument whose trading rules were
\* never loaded into the precision tables.
C23_UnknownInstrumentAborted ==
    EntrySubmitted =>
       /\ last.pair \in DOMAIN quantity_precision
       /\ last.pair \in DOMAIN price_precision

\* C24: once the entry order has filled, the call ends with the trade
\* registered and both protective orders placed, or with an emergency
\* close submitted.
C24_NoUnmanagedPosition ==
    last.entry = "ok" =>
       \/ /\ last.outcome = "committed"
          /\ HasActiveTrade(active_trades, last.pair)
          /\ \E i \in OrdersOf("stop_loss") : last.orders[i].ok
          /\ \E i \in OrdersOf("take_profit") : last.orders[i].ok
       \/ OrdersOf("emergency_close") # {}

\* C25: after a sequence whose take-profit placement failed and whose
\* emergency close went through, no stop-loss order placed by that
\* sequence is open on the exchange.
C25_RollbackLeavesNothing ==
    last.outcome = "rolled_back" =>
       \A o \in openOrders[last.pair] :
          ~(o.role = "stop_loss" /\ ~o.committed)

\* C26: the opportunity the loop takes next has the highest confidence of
\* those left; once the registry is full the loop stops and submits nothing
\* more in the cycle; an entry submitted in a step is that of the
\* opportunity at the head of the list.
C26_RankedExecution ==
    [][(pc = "execute" /\ trade_opportunities' # trade_opportunities) =>
         LET decision == Head(trade_opportunities) IN
         /\ \A i \in DOMAIN trade_opportunities :
               decision.confidence >= trade_opportunities[i].confidence
         /\ Cardinality(DOMAIN active_trades) >= max_concurrent_trades =>
               /\ trade_opportunities' = <<>>
               /\ pc' = "check"
               /\ UNCHANGED <<active_trades, positionAmt, openOrders>>
               /\ last'.orders = <<>>
         /\ last'.orders # <<>> =>
               /\ last'.pair = decision.pair
               /\ last'.confidence = decision.confidence]_vars

\* one slot was free and two opportunities passed the gate: the one with the
\* higher confidence took the slot although its pair comes later in
\* available_pairs, and the other one is still waiting
C26_Witness ==
    /\ pc = "execute"
    /\ Cardinality(DOMAIN active_trades) = max_concurrent_trades
    /\ last.outcome = "committed"
    /\ last.posBefore = 0
    /\ trade_opportunities # <<>>
    /\ PassesUrgencyGate(Head(trade_opportunities))
    /\ Head(trade_opportunities).confidence < last.confidence
    /\ \E i, j \in DOMAIN available_pairs :
          /\ i < j
          /\ available_pairs[i] = Head(trade_opportunities).pair
          /\ available_pairs[j] = last.pair

\* C27: no entry order is ever submitted for a blacklisted pair.
C27_NoBlacklistedEntry ==
    EntrySubmitted => last.pair \notin blacklisted_pairs

\* C28: the loop is never ended by an error: it always comes back to the
\* sleep between two cycles, unless the user interrupted it.
C28_LoopSurvives == []<>(pc = "sleep" \/ pc = "interrupted")

\* a call of execute_scalping_trade raised (the ticker call failed) and the
\* loop stands at its next step
C28_Witness ==
    /\ last.outcome = "error"
    /\ pc \in {"execute", "check"}

\* C29: a cycle's rotation changes available_pairs only, never the
\* registry; the reconciliation pass polls every registered pair, available
\* or not, and removes the entry of a polled pair whose position is gone.
C29_RotationKeepsRegistry ==
    [][/\ pc = "sleep" => active_trades' = active_trades
       /\ PassStep =>
             \A p \in DOMAIN active_trades :
                /\ p \in DOMAIN polled'
                /\ (polled'[p] = "completed") = (positionAmt[p] = 0
                                                 /\ polled'[p] # "error")
                /\ polled'[p] = "completed" => p \notin DOMAIN active_trades'
                /\ polled'[p] # "completed" =>
                      /\ p \in DOMAIN active_trades'
                      /\ active_trades'[p] = active_trades[p]]_vars

\* a registered trade whose pair was rotated out of available_pairs has been
\* polled and, its position gone, removed
C29_Witness ==
    \E p \in DOMAIN polled :
       /\ polled[p] = "completed"
       /\ p \notin Range(available_pairs)
       /\ p \notin DOMAIN active_trades
       /\ pc = "sleep"

\* C30: execute_scalping_trade is called only for a TRADE decision of
\* confidence 65 or more whose urgency (medium when the decision has none)
\* is high, or medium with a confidence of 70 or more; a decision of
\* confidence 60 and urgency medium never leads to an order.
C30_ExecutionGate ==
    /\ \A i \in DOMAIN trade_opportunities :
          /\ trade_opportunities[i].action = "TRADE"
          /\ trade_opportunities[i].confidence >= 65
    /\ last.outcome \notin {"none", "gated", "dropped_capacity", "quoted"} =>
          /\ last.confidence >= 65
          /\ \/ Urgency(last) = "high"
             \/ Urgency(last) = "medium" /\ last.confidence >= 70
    /\ last.outcome = "gated" =>
          ~(\/ Urgency(last) = "high"
            \/ Urgency(last) = "medium" /\ last.confidence >= 70)
    /\ last.orders # <<>> =>
          ~(last.confidence = 60 /\ Urgency(last) = "medium")

\* a decision of medium urgency and confidence 70 was executed in a cycle
\* in which a decision of confidence 60 and medium urgency was left out
C30_Witness ==
    /\ last.outcome = "committed"
    /\ last.urgency = "medium"
    /\ last.confidence = 70
    /\ \E d \in declined : d.confidence = 60 /\ d.urgency = "medium"

====
